---- MODULE Spec2Model ----
(***************************************************************************)
(* Model of test/patch_getitem.py: the indexing primitives prim_slice,     *)
(* prim_gather and prim_reorder, and the __getitem__ built from them.      *)
(*                                                                         *)
(* An array is its metadata: an object identity, the Storage it views, its *)
(* shape, its stride and its storage offset.  Element values are not       *)
(* modelled; an index tensor is an array plus its dtype and the number of  *)
(* its nonzero entries.  Python's None is the empty sequence and an int v  *)
(* that may be None is the one-element sequence <<v>>.  Dimension numbers  *)
(* are the source's (0-based); sequences are TLA+'s (1-based).             *)
(***************************************************************************)
EXTENDS Integers, Sequences, FiniteSets, TLC

VARIABLES pc, self_, index_, self, index, indices_specified, initial_reorder,
          slice_dims, slices, gather_dims, gather_tensors, permute,
          gather_insert_point, offset, offsets, trace, result

vars == <<pc, self_, index_, self, index, indices_specified, initial_reorder,
          slice_dims, slices, gather_dims, gather_tensors, permute,
          gather_insert_point, offset, offsets, trace, result>>

(* ------------------------------ bounds --------------------------------- *)

MaxRank == 3
MaxDim == 2
MaxLen == 3
AdvRank == 4
AdvLen == 4

(* --------------------------- Python values ----------------------------- *)

None == <<>>
Some(v) == <<v>>

Min(a, b) == IF a < b THEN a ELSE b
Max(a, b) == IF a > b THEN a ELSE b

\* list(range(n))
Range(n) == [i \in 1..n |-> i - 1]

RECURSIVE Prod(_)
Prod(s) == IF s = <<>> THEN 1 ELSE Head(s) * Prod(Tail(s))

\* lst[a:b] of a Python list, 0 <= a
PySub(lst, a, b) == SubSeq(lst, a + 1, Min(b, Len(lst)))

\* lst.insert(pos, x) and lst[pos:pos] = xs, 0 <= pos
Insert(lst, pos, xs) ==
  LET p == Min(pos, Len(lst))
  IN SubSeq(lst, 1, p) \o xs \o SubSeq(lst, p + 1, Len(lst))

\* a raised exception, and a returned value
Raise(e) == [err |-> e, val |-> <<>>]
Ok(v) == [err |-> "", val |-> <<v>>]
NoResult == [err |-> "", val |-> <<>>]

(* ------------------------------ arrays --------------------------------- *)

\* the stride of a freshly allocated (contiguous) array of this shape
ContiguousStride(shape) ==
  [i \in 1..Len(shape) |-> Prod(SubSeq(shape, i + 1, Len(shape)))]

\* a view: a new array object over the Storage of tensor
View(tensor, shape, stride, storage_offset) ==
  [id |-> tensor.id + 1, storage |-> tensor.storage,
   shape |-> shape, stride |-> stride, offset |-> storage_offset]

\* torch.as_strided(tensor, size, stride, storage_offset)
as_strided(tensor, size, stride, storage_offset) ==
  View(tensor, size, stride, storage_offset)

\* torch.ops.aten.alias(tensor)
alias(tensor) == View(tensor, tensor.shape, tensor.stride, tensor.offset)

(* ------------------------------ slices --------------------------------- *)

Slice(start, stop, step) ==
  [kind |-> "slice", start |-> start, stop |-> stop, step |-> step]
Integer(v) == [kind |-> "int", value |-> v]
Ellipsis == [kind |-> "ellipsis"]
NewAxis == [kind |-> "none"]
Bool(b) == [kind |-> "bool", value |-> b]
Tensor(dtype, arr, count, origin) ==
  [kind |-> "tensor", dtype |-> dtype, arr |-> arr, count |-> count,
   origin |-> origin]

empty_slice == Slice(None, None, None)

\* slice.indices(n) for a positive step: <<start, stop, step>>, clamped to 0..n
SliceIndices(s, n) ==
  LET step == IF s.step = None THEN 1 ELSE s.step[1]
      clamp(v) == IF v < 0 THEN Max(v + n, 0) ELSE Min(v, n)
      start == IF s.start = None THEN 0 ELSE clamp(s.start[1])
      stop == IF s.stop = None THEN n ELSE clamp(s.stop[1])
  IN <<start, Max(stop, start), step>>

\* the number of positions slice s selects from a dimension of size n
SliceLen(s, n) ==
  LET r == SliceIndices(s, n)
  IN (r[2] - r[1] + r[3] - 1) \div r[3]

\* the base library's __getitem__ with one slice per dimension: a view
BaseSlice(tensor, args) ==
  LET n == Len(tensor.shape)
      r == [d \in 1..n |-> SliceIndices(args[d], tensor.shape[d])]
      RECURSIVE Off(_)
      Off(d) == IF d > n THEN 0 ELSE r[d][1] * tensor.stride[d] + Off(d + 1)
  IN View(tensor,
          [d \in 1..n |-> SliceLen(args[d], tensor.shape[d])],
          [d \in 1..n |-> tensor.stride[d] * r[d][3]],
          tensor.offset + Off(1))

(* ----------------------------- prim_slice ------------------------------ *)

\* if s < 0: s += tensor.shape[d]
WrapNegative(s, size) == IF s < 0 THEN s + size ELSE s

\* the bounds check with its upper bound off by one
OutOfBounds_inclusive(s, size) == s < 0 \/ s > size

\* if s < 0 or s >= tensor.shape[d]: raise IndexError
OutOfBounds(s, size) == s < 0 \/ s >= size

prim_slice(tensor, dims, slices_) ==
  LET RECURSIVE loop(_, _)
      loop(k, args) ==
        IF k > Min(Len(dims), Len(slices_))
        THEN Ok(BaseSlice(tensor, args))
        ELSE LET d == dims[k]
                 s == slices_[k]
             IN IF s.kind = "slice"
                THEN loop(k + 1, [args EXCEPT ![d + 1] = s])
                ELSE LET w == WrapNegative(s.value, tensor.shape[d + 1])
                     IN IF OutOfBounds(w, tensor.shape[d + 1])
                        THEN Raise("OutOfBoundsError")
                        ELSE loop(k + 1,
                               [args EXCEPT ![d + 1] =
                                  Slice(Some(w), Some(w + 1), None)])
  IN loop(1, [i \in 1..Len(tensor.shape) |-> empty_slice])

(* ---------------------------- prim_reorder ----------------------------- *)

\* assert i in order or sz[i] == 1, for every source axis i
Dangling(sz, order) ==
  \E i \in 0..(Len(sz) - 1) :
    ~(\/ \E k \in 1..Len(order) : order[k] = Some(i)
      \/ sz[i + 1] = 1)

\* a new axis given the stride of a contiguous axis
ReorderStride_one(st, o) == IF o # None THEN st[o[1] + 1] ELSE 1

\* the size and the stride of the output axis that order entry o names
ReorderSize(sz, o) == IF o # None THEN sz[o[1] + 1] ELSE 1
ReorderStride(st, o) == IF o # None THEN st[o[1] + 1] ELSE 0

prim_reorder(tensor, order) ==
  IF Dangling(tensor.shape, order)
  THEN Raise("DanglingAxisError")
  ELSE Ok(as_strided(tensor,
                     [k \in 1..Len(order) |-> ReorderSize(tensor.shape, order[k])],
                     [k \in 1..Len(order) |-> ReorderStride(tensor.stride, order[k])],
                     tensor.offset))

(* ----------------------------- prim_gather ----------------------------- *)

ndim(t) == Len(t.shape)

\* an index tensor freshly built by the library (contiguous, its own Storage)
NewTensor(shape) ==
  [id |-> 0, storage |-> 0, shape |-> shape,
   stride |-> ContiguousStride(shape), offset |-> 0]

\* torch.broadcast_tensors over shapes: the common shape, or a RuntimeError
RECURSIVE BroadcastShape(_, _)
BroadcastShape(a, b) ==
  IF Len(a) < Len(b) THEN BroadcastShape(b, a)
  ELSE LET pad == Len(a) - Len(b)
           fits(i) == i <= pad \/ a[i] = b[i - pad] \/ a[i] = 1 \/ b[i - pad] = 1
       IN IF \A i \in 1..Len(a) : fits(i)
          THEN Ok([i \in 1..Len(a) |->
                     IF i <= pad THEN a[i]
                     ELSE IF a[i] = 1 THEN b[i - pad] ELSE a[i]])
          ELSE Raise("RuntimeError")

RECURSIVE broadcast_tensors(_)
broadcast_tensors(shapes) ==
  IF Len(shapes) = 1 THEN Ok(shapes[1])
  ELSE LET rest == broadcast_tensors(Tail(shapes))
       IN IF rest.err # "" THEN rest
          ELSE BroadcastShape(shapes[1], rest.val[1])

\* the base library's __getitem__ on index tensors of one shape S, None and
\* full slices: a copy; S goes where the tensors are when they are adjacent
\* and to the front when something separates them
BaseIndex(tensor, args, S) ==
  LET pos == {k \in 1..Len(args) : args[k] = "tensor"}
      first == CHOOSE k \in pos : \A j \in pos : k <= j
      adjacent == \A k \in pos : \A j \in pos : (k < j) => (\A m \in k..j : m \in pos)
      \* the source dimension that args[k] consumes, for a tensor or a slice
      dimOf(k) == Cardinality({j \in 1..k : args[j] # "None"})
      RECURSIVE rest(_)
      rest(k) ==
        IF k > Len(args) THEN <<>>
        ELSE (IF args[k] = "tensor" THEN <<>>
              ELSE IF args[k] = "None" THEN <<1>>
              ELSE <<tensor.shape[dimOf(k)]>>) \o rest(k + 1)
      RECURSIVE before(_)
      before(k) ==
        IF k >= first THEN <<>>
        ELSE (IF args[k] = "None" THEN <<1>>
              ELSE <<tensor.shape[dimOf(k)]>>) \o before(k + 1)
      shape == IF adjacent
               THEN before(1) \o S \o rest(first)
               ELSE S \o rest(1)
  IN [id |-> tensor.id + 1, storage |-> tensor.storage + 1, shape |-> shape,
      stride |-> ContiguousStride(shape), offset |-> 0]

\* tensor.movedim(source, destination): a view
movedim(tensor, source, destination) ==
  LET n == ndim(tensor)
      others == SelectSeq(Range(n), LAMBDA d : d # source)
      order == Insert(others, destination, <<source>>)
  IN View(tensor,
          [k \in 1..n |-> tensor.shape[order[k] + 1]],
          [k \in 1..n |-> tensor.stride[order[k] + 1]],
          tensor.offset)

\* args of the base __getitem__: the index and a None for a gathered
\* dimension, a full slice for any other
GatherArgs(n, dims) ==
  LET RECURSIVE build(_)
      build(i) ==
        IF i >= n THEN <<>>
        ELSE (IF \E k \in 1..Len(dims) : dims[k] = i
              THEN <<"tensor", "None">>
              ELSE <<"slice">>) \o build(i + 1)
  IN build(0)

\* if len(indices) == 1: move the index's axes to the front, one by one
ForceFront(r, dims, indices) ==
  LET RECURSIVE mv(_, _)
      mv(i, t) == IF i >= Len(indices[1]) THEN t
                  ELSE mv(i + 1, movedim(t, dims[1] + i, i))
  IN IF Len(indices) = 1 THEN mv(0, r) ELSE r

\* indices: the (already broadcast) shapes of the index tensors
prim_gather(tensor, dims, indices) ==
  ForceFront(BaseIndex(tensor, GatherArgs(ndim(tensor), dims), indices[1]),
             dims, indices)

(* ----------------------------- normalizer ------------------------------ *)

IsMask(idx) == idx.kind = "tensor" /\ idx.dtype \in {"bool", "uint8"}

n_specified(idx) ==
  IF idx.kind \in {"none", "bool", "ellipsis"} THEN 0
  ELSE IF idx.kind = "tensor"
       THEN (IF idx.dtype \in {"bool", "uint8"} THEN ndim(idx.arr) ELSE 1)
       ELSE 1

\* a Python bool becomes a 0-dim bool tensor
wrap_sequences(idx) ==
  IF idx.kind = "bool"
  THEN Tensor("bool", NewTensor(<<>>), IF idx.value THEN 1 ELSE 0, "index")
  ELSE idx

RECURSIVE Specified(_)
Specified(idxs) ==
  IF idxs = <<>> THEN 0 ELSE n_specified(Head(idxs)) + Specified(Tail(idxs))

\* index.index(...) if ... in index else len(index)
EllipsisAt(idxs) ==
  IF \E k \in 1..Len(idxs) : idxs[k] = Ellipsis
  THEN (CHOOSE k \in 1..Len(idxs) :
          idxs[k] = Ellipsis /\ \A j \in 1..(k - 1) : idxs[j] # Ellipsis) - 1
  ELSE Len(idxs)

\* the padding put before the Ellipsis, which stays
Pad_keep(idxs, to_pad) ==
  LET idx == EllipsisAt(idxs)
  IN PySub(idxs, 0, idx) \o [k \in 1..to_pad |-> empty_slice]
       \o SubSeq(idxs, idx + 1, Len(idxs))

\* (*index[0:idx], *padding, *index[idx+1:])
Pad(idxs, to_pad) ==
  LET idx == EllipsisAt(idxs)
  IN PySub(idxs, 0, idx) \o [k \in 1..to_pad |-> empty_slice]
       \o SubSeq(idxs, idx + 2, Len(idxs))

(* ---------------------------- mask expander --------------------------- *)

\* idx.nonzero().unbind(dim=1): one coordinate tensor per dimension of the
\* mask, each as long as the mask has nonzero entries
nonzero_unbind(idx, shape, origin) ==
  [d \in 1..Len(shape) |-> Tensor("long", NewTensor(<<idx.count>>), 0, origin)]

\* the new axis inserted at the dimension cursor, earlier insertions forgotten
InsertScalarAxis_cursor(reorder, i, rank) == Insert(reorder, i, <<None>>)

\* initial_reorder.insert(i + (len(initial_reorder) - self.ndim), None)
InsertScalarAxis(reorder, i, rank) ==
  Insert(reorder, i + (Len(reorder) - rank), <<None>>)

\* the mask compared with the leading dimensions, the cursor ignored
MaskMismatch_leading(idx, shape, i) ==
  idx.arr.shape # PySub(shape, 0, ndim(idx.arr))

\* tuple(idx.shape) != tuple(self.shape[i:i+idx.ndim])
MaskMismatch(idx, shape, i) ==
  idx.arr.shape # PySub(shape, i, i + ndim(idx.arr))

\* the loop that turns masks into coordinate tensors
ExpandMasks(tensor, idxs) ==
  LET RECURSIVE loop(_, _, _, _)
      loop(k, i, new_index, reorder) ==
        IF k > Len(idxs)
        THEN [err |-> "", new_index |-> new_index, initial_reorder |-> reorder]
        ELSE LET idx == idxs[k]
             IN IF IsMask(idx)
                THEN IF ndim(idx.arr) = 0
                     THEN loop(k + 1, i,
                               new_index \o
                                 nonzero_unbind(
                                   idx, prim_reorder(idx.arr, <<None>>).val[1].shape,
                                   "scalar"),
                               InsertScalarAxis(reorder, i, ndim(tensor)))
                     ELSE IF MaskMismatch(idx, tensor.shape, i)
                          THEN [err |-> "ShapeMismatchError",
                                new_index |-> new_index,
                                initial_reorder |-> reorder]
                          ELSE loop(k + 1, i + ndim(idx.arr),
                                    new_index \o
                                      nonzero_unbind(idx, idx.arr.shape, "mask"),
                                    reorder)
                ELSE loop(k + 1, IF idx.kind # "none" THEN i + 1 ELSE i,
                          Append(new_index, idx), reorder)
  IN loop(1, 0, <<>>, [k \in 1..ndim(tensor) |-> Some(k - 1)])

\* if len(initial_reorder) > indices_specified
NeedsInitialReorder(reorder, specified) == Len(reorder) > specified

(* ----------------------------- plan builder ---------------------------- *)

EmptyPlan ==
  [err |-> "", slice_dims |-> <<>>, slices |-> <<>>, gather_dims |-> <<>>,
   gather_tensors |-> <<>>, permute |-> <<>>, has_none |-> FALSE,
   offset |-> 0, seen_output_dims |-> 0, gather_insert_point |-> None,
   offsets |-> <<>>]

\* if idx is None
PlanNone(p) ==
  [p EXCEPT !.permute = Append(@, None), !.has_none = TRUE,
            !.seen_output_dims = @ + 1, !.offsets = Append(@, None)]

\* the plan for a slice or an integer, with the integer's axis kept in permute
PlanBasic_keep(p, idx) ==
  LET q == IF idx # empty_slice
           THEN [p EXCEPT !.slice_dims = Append(@, p.offset),
                          !.slices = Append(@, idx)]
           ELSE p
  IN [q EXCEPT !.permute = Append(@, Some(p.offset)),
               !.seen_output_dims = @ + 1,
               !.offset = @ + 1, !.offsets = Append(@, Some(p.offset))]

\* if isinstance(idx, (int, slice))
PlanBasic(p, idx) ==
  LET q == IF idx # empty_slice
           THEN [p EXCEPT !.slice_dims = Append(@, p.offset),
                          !.slices = Append(@, idx)]
           ELSE p
      r == IF idx.kind = "slice"
           THEN [q EXCEPT !.permute = Append(@, Some(p.offset)),
                          !.seen_output_dims = @ + 1]
           ELSE q
  IN [r EXCEPT !.offset = @ + 1, !.offsets = Append(@, Some(p.offset))]

\* the insertion point never moved from the first index tensor's
InsertPoint_first(point, seen) == IF point = None THEN Some(seen) ELSE point

\* the insertion point after one more index tensor
InsertPoint(point, seen) ==
  IF point = None THEN Some(seen)
  ELSE IF point # Some(seen) THEN Some(0) ELSE point

\* elif isinstance(idx, torch.Tensor)
PlanTensor(p, idx) ==
  [p EXCEPT !.gather_dims = Append(@, p.offset),
            !.gather_tensors = Append(@, idx),
            !.gather_insert_point = InsertPoint(@, p.seen_output_dims),
            !.offset = @ + 1, !.offsets = Append(@, Some(p.offset))]

BuildPlan(idxs) ==
  LET RECURSIVE loop(_, _)
      loop(k, p) ==
        IF k > Len(idxs) THEN p
        ELSE LET idx == idxs[k]
             IN IF idx.kind = "none" THEN loop(k + 1, PlanNone(p))
                ELSE IF idx.kind \in {"int", "slice"}
                     THEN loop(k + 1, PlanBasic(p, idx))
                     ELSE IF idx.kind = "tensor"
                          THEN loop(k + 1, PlanTensor(p, idx))
                          ELSE [p EXCEPT !.err = "InvalidIndexError"]
  IN loop(1, EmptyPlan)

(* ------------------------------- executor ------------------------------ *)

\* permute[i] += ndim: None + int is a TypeError
ShiftFails(perm) == \E k \in 1..Len(perm) : perm[k] = None

ShiftPermute(perm, n) == [k \in 1..Len(perm) |-> Some(perm[k][1] + n)]

\* permute[gather_insert_point:gather_insert_point] = list(range(ndim))
SplicePermute(perm, point, n) ==
  Insert(perm, point, [k \in 1..n |-> Some(k - 1)])

\* self.ndim != len(permute) or list(range(self.ndim)) != permute
needs_reorder(tensor, perm) ==
  ndim(tensor) # Len(perm) \/ [k \in 1..ndim(tensor) |-> Some(k - 1)] # perm

\* the return without the alias step
Returned_same(tensor, source) == tensor

\* if self is self_: self = torch.ops.aten.alias(self)
Returned(tensor, source) ==
  IF tensor.id = source.id THEN alias(tensor) ELSE tensor

(* ------------------------- __getitem__, by stage ----------------------- *)

plan == <<slice_dims, slices, gather_dims, gather_tensors, permute,
          gather_insert_point, offset, offsets>>

\* an exception leaves __getitem__
Fail(e) == result' = Raise(e) /\ pc' = "done"

\* lines 171-181: wrap, count the specified dimensions, pad
Normalize ==
  /\ pc = "start"
  /\ LET wrapped == [k \in 1..Len(index_) |-> wrap_sequences(index_[k])]
         to_pad == ndim(self) - Specified(wrapped)
     IN /\ indices_specified' = Specified(wrapped)
        /\ IF to_pad < 0
           THEN index' = wrapped /\ Fail("RankError")
           ELSE index' = Pad(wrapped, to_pad) /\ pc' = "masks"
                /\ UNCHANGED result
  /\ UNCHANGED <<self_, index_, self, initial_reorder, plan, trace>>

\* lines 183-204: masks become coordinate tensors
Expand ==
  /\ pc = "masks"
  /\ LET r == ExpandMasks(self, index)
     IN IF r.err # ""
        THEN Fail(r.err) /\ UNCHANGED <<index, initial_reorder>>
        ELSE /\ index' = r.new_index
             /\ initial_reorder' = r.initial_reorder
             /\ pc' = "initial_reorder"
             /\ UNCHANGED result
  /\ UNCHANGED <<self_, index_, self, indices_specified, plan, trace>>

\* lines 206-207: the corrective reorder of the source
InitialReorder ==
  /\ pc = "initial_reorder"
  /\ IF NeedsInitialReorder(initial_reorder, indices_specified)
     THEN LET r == prim_reorder(self, initial_reorder)
          IN /\ trace' = Append(trace, "prim_reorder")
             /\ IF r.err # ""
                THEN Fail(r.err) /\ UNCHANGED self
                ELSE self' = r.val[1] /\ pc' = "plan" /\ UNCHANGED result
     ELSE pc' = "plan" /\ UNCHANGED <<self, trace, result>>
  /\ UNCHANGED <<self_, index_, index, indices_specified, initial_reorder, plan>>

\* lines 210-249: the slice plan, the gather plan and the permutation
Plan ==
  /\ pc = "plan"
  /\ LET p == BuildPlan(index)
     IN /\ slice_dims' = p.slice_dims
        /\ slices' = p.slices
        /\ gather_dims' = p.gather_dims
        /\ gather_tensors' = p.gather_tensors
        /\ permute' = p.permute
        /\ gather_insert_point' = p.gather_insert_point
        /\ offset' = p.offset
        /\ offsets' = p.offsets
        /\ IF p.err # "" THEN Fail(p.err)
           ELSE pc' = "slice" /\ UNCHANGED result
  /\ UNCHANGED <<self_, index_, self, index, indices_specified,
                 initial_reorder, trace>>

\* lines 251-252
ExecSlice ==
  /\ pc = "slice"
  /\ IF slice_dims # <<>>
     THEN LET r == prim_slice(self, slice_dims, slices)
          IN /\ trace' = Append(trace, "prim_slice")
             /\ IF r.err # ""
                THEN Fail(r.err) /\ UNCHANGED self
                ELSE self' = r.val[1] /\ pc' = "gather" /\ UNCHANGED result
     ELSE pc' = "gather" /\ UNCHANGED <<self, trace, result>>
  /\ UNCHANGED <<self_, index_, index, indices_specified, initial_reorder, plan>>

\* lines 254-265
ExecGather ==
  /\ pc = "gather"
  /\ IF gather_dims # <<>>
     THEN LET b == broadcast_tensors(
                     [k \in 1..Len(gather_tensors) |-> gather_tensors[k].arr.shape])
          IN IF b.err # ""
             THEN Fail("BroadcastError") /\ UNCHANGED <<self, trace, permute>>
             ELSE LET S == b.val[1]
                  IN /\ self' = prim_gather(self, gather_dims,
                                   [k \in 1..Len(gather_tensors) |-> S])
                     /\ trace' = Append(trace, "prim_gather")
                     /\ IF ShiftFails(permute)
                        THEN Fail("TypeError") /\ UNCHANGED permute
                        ELSE /\ permute' = SplicePermute(
                                             ShiftPermute(permute, Len(S)),
                                             gather_insert_point[1], Len(S))
                             /\ pc' = "reorder"
                             /\ UNCHANGED result
     ELSE pc' = "reorder" /\ UNCHANGED <<self, trace, permute, result>>
  /\ UNCHANGED <<self_, index_, index, indices_specified, initial_reorder,
                 slice_dims, slices, gather_dims, gather_tensors,
                 gather_insert_point, offset, offsets>>

\* lines 267-270
ExecReorder ==
  /\ pc = "reorder"
  /\ IF needs_reorder(self, permute)
     THEN LET r == prim_reorder(self, permute)
          IN /\ trace' = Append(trace, "prim_reorder")
             /\ IF r.err # ""
                THEN Fail(r.err) /\ UNCHANGED self
                ELSE self' = r.val[1] /\ pc' = "return" /\ UNCHANGED result
     ELSE pc' = "return" /\ UNCHANGED <<self, trace, result>>
  /\ UNCHANGED <<self_, index_, index, indices_specified, initial_reorder, plan>>

\* lines 272-274
Return ==
  /\ pc = "return"
  /\ self' = Returned(self, self_)
  /\ result' = Ok(self')
  /\ pc' = "done"
  /\ UNCHANGED <<self_, index_, index, indices_specified, initial_reorder,
                 plan, trace>>

Next ==
  \/ Normalize
  \/ Expand
  \/ InitialReorder
  \/ Plan
  \/ ExecSlice
  \/ ExecGather
  \/ ExecReorder
  \/ Return

(* ------------------------------- inputs -------------------------------- *)

SeqsUpTo(S, n) == UNION {[1..k -> S] : k \in 0..n}

\* a source array as torch.rand(*shape) makes it
Source(shape) ==
  [id |-> 1, storage |-> 1, shape |-> shape,
   stride |-> ContiguousStride(shape), offset |-> 0]

\* the shapes (2, 3, ..., r+1) and (1, 2, ..., r)
Ramp(r) == [k \in 1..r |-> k + 1]
RampFromOne(r) == [k \in 1..r |-> k]
SourceShapes(r) == {Ramp(k) : k \in 0..r} \cup {RampFromOne(k) : k \in 0..r}

Long(shape) == Tensor("long", NewTensor(shape), 0, "index")
Mask(dtype, shape, count) == Tensor(dtype, NewTensor(shape), count, "index")

\* every kind of slot; Integer(MaxRank + 1) is out of bounds in every source
Slots ==
  {empty_slice, Slice(Some(1), None, None), Integer(-1), Integer(MaxRank + 1),
   Ellipsis, NewAxis, Bool(TRUE),
   Mask("bool", <<2>>, 1), Mask("bool", <<3>>, 3), Mask("uint8", <<2, 3>>, 2),
   Long(<<>>), Long(<<2>>), Long(<<3, 1>>)}

\* slices and integers only
BasicSlots ==
  {empty_slice, Slice(Some(1), None, None), Slice(None, Some(-1), None),
   Slice(None, None, Some(2)), Slice(Some(-2), Some(MaxRank + 2), None),
   Integer(0), Integer(1), Integer(-1), Integer(MaxRank + 1)}

\* index tensors among slices, integers and new axes
AdvSlots ==
  {empty_slice, Integer(0), NewAxis, Long(<<2>>), Long(<<3, 1>>)}

\* scalar masks among every other kind of slot
ScalarSlots ==
  {Bool(TRUE), Bool(FALSE), NewAxis, Integer(0), empty_slice, Long(<<2>>),
   Mask("bool", <<2>>, 1)}

InitWith(shapes, slots, n) ==
  /\ self_ \in {Source(s) : s \in shapes}
  /\ index_ \in SeqsUpTo(slots, n)
  /\ self = self_
  /\ pc = "start"
  /\ index = <<>>
  /\ indices_specified = 0
  /\ initial_reorder = <<>>
  /\ slice_dims = <<>>
  /\ slices = <<>>
  /\ gather_dims = <<>>
  /\ gather_tensors = <<>>
  /\ permute = <<>>
  /\ gather_insert_point = None
  /\ offset = 0
  /\ offsets = <<>>
  /\ trace = <<>>
  /\ result = NoResult

Init == InitWith(SourceShapes(MaxRank), Slots, MaxLen)
InitBasic == InitWith(SourceShapes(MaxRank), BasicSlots, MaxLen)
InitAdv == InitWith({Ramp(k) : k \in 0..AdvRank}, AdvSlots, AdvLen)
InitScalar == InitWith(SourceShapes(MaxRank), ScalarSlots, AdvLen)

Spec == Init /\ [][Next]_vars
SpecBasic == InitBasic /\ [][Next]_vars
SpecAdv == InitAdv /\ [][Next]_vars
SpecScalar == InitScalar /\ [][Next]_vars

(* ---------------------- the primitives, called alone ------------------- *)

\* a tensor of the given shape at storage offset o
TensorAt(shape, o) == [Source(shape) EXCEPT !.offset = o]

Shapes(r, lo, hi) == UNION {[1..k -> lo..hi] : k \in 0..r}

OrderEntries(r) == {None} \cup {Some(i) : i \in 0..(r - 1)}

\* a call is one the source can make: its dimensions exist and its order
\* names existing axes
WellFormed(tensor, dims, order) ==
  /\ \A k \in 1..Len(dims) : dims[k] < ndim(tensor)
  /\ \A k \in 1..Len(order) : order[k] = None \/ order[k][1] < ndim(tensor)

SliceCalls ==
  \E sh \in Shapes(2, 0, MaxDim) \cup {<<3, 4, 5>>}, o \in 0..1 :
   \E d \in {x \in {<<>>, <<0>>, <<1>>, <<0, 1>>, <<1, 0>>, <<0, 2>>} :
               WellFormed(TensorAt(sh, o), x, <<>>)} :
    \E a \in [1..Len(d) -> {Integer(v) : v \in (0 - MaxDim - 2)..(MaxDim + 1)}
                              \cup {Slice(Some(1), None, None)}] :
      /\ pc = "prim_slice"
      /\ self_ = TensorAt(sh, o)
      /\ slice_dims = d
      /\ slices = a
      /\ permute = <<>>
      /\ gather_dims = <<>>
      /\ gather_tensors = <<>>

ReorderCalls ==
  \E sh \in Shapes(MaxRank, 1, MaxDim) \cup {<<2, 1, 5, 3>>}, o \in 0..1 :
    \E a \in {x \in SeqsUpTo(OrderEntries(Len(sh)), MaxLen)
                      \cup {<<Some(0), Some(3), Some(2), None>>} :
                 WellFormed(TensorAt(sh, o), <<>>, x)} :
      /\ pc = "prim_reorder"
      /\ self_ = TensorAt(sh, o)
      /\ slice_dims = <<>>
      /\ slices = <<>>
      /\ permute = a
      /\ gather_dims = <<>>
      /\ gather_tensors = <<>>

GatherCalls ==
  \E sh \in Shapes(MaxRank, 1, MaxDim) \cup {<<3, 4, 5>>},
     S \in {<<>>, <<2>>, <<3, 1>>, <<4, 5>>} :
    \E d \in {x \in {<<0>>, <<1>>, <<2>>, <<0, 1>>, <<1, 2>>, <<0, 2>>} :
                WellFormed(Source(sh), x, <<>>)} :
      /\ pc = "prim_gather"
      /\ self_ = Source(sh)
      /\ slice_dims = <<>>
      /\ slices = <<>>
      /\ permute = <<>>
      /\ gather_dims = d
      /\ gather_tensors = [k \in 1..Len(d) |-> S]

InitPrim ==
  /\ \/ SliceCalls
     \/ ReorderCalls
     \/ GatherCalls
  /\ self = self_
  /\ index_ = <<>>
  /\ index = <<>>
  /\ indices_specified = 0
  /\ initial_reorder = <<>>
  /\ gather_insert_point = None
  /\ offset = 0
  /\ offsets = <<>>
  /\ trace = <<>>
  /\ result = NoResult

CallPrimSlice ==
  /\ pc = "prim_slice"
  /\ result' = prim_slice(self_, slice_dims, slices)
  /\ trace' = <<"prim_slice">>
  /\ pc' = "prim_slice_ret"
  /\ UNCHANGED <<self_, index_, self, index, indices_specified, initial_reorder, plan>>

CallPrimReorder ==
  /\ pc = "prim_reorder"
  /\ result' = prim_reorder(self_, permute)
  /\ trace' = <<"prim_reorder">>
  /\ pc' = "prim_reorder_ret"
  /\ UNCHANGED <<self_, index_, self, index, indices_specified, initial_reorder, plan>>

CallPrimGather ==
  /\ pc = "prim_gather"
  /\ result' = Ok(prim_gather(self_, gather_dims, gather_tensors))
  /\ trace' = <<"prim_gather">>
  /\ pc' = "prim_gather_ret"
  /\ UNCHANGED <<self_, index_, self, index, indices_specified, initial_reorder, plan>>

NextPrim ==
  \/ CallPrimSlice
  \/ CallPrimReorder
  \/ CallPrimGather

SpecPrim == InitPrim /\ [][NextPrim]_vars

\* the assertions of the source file (lines 277-288) hold of the model
SourceAssertions ==
  /\ (/\ pc = "prim_slice_ret" /\ self_ = Source(<<3, 4, 5>>)
      /\ slice_dims = <<0, 2>>
      /\ slices = <<Slice(Some(1), None, None), Integer(3)>>)
       => result.val[1].shape = <<2, 4, 1>>
  /\ (/\ pc = "prim_gather_ret" /\ self_ = Source(<<3, 4, 5>>)
      /\ gather_tensors[1] = <<4, 5>>)
       => /\ gather_dims = <<1>> => result.val[1].shape = <<4, 5, 3, 1, 5>>
          /\ gather_dims = <<1, 2>> => result.val[1].shape = <<4, 5, 3, 1, 1>>
  /\ (/\ pc = "prim_reorder_ret" /\ self_ = Source(<<2, 1, 5, 3>>)
      /\ permute = <<Some(0), Some(3), Some(2), None>>)
       => result.val[1].shape = <<2, 3, 5, 1>>

(* ------------------------------- claims -------------------------------- *)

\* C2: prim_slice given the integer v on a dimension d of size n succeeds if
\* and only if -n <= v <= n-1, and then selects the single element at
\* position v (v+n when v is negative): dimension d gets size 1 and the view
\* starts that many strides further into the same Storage.  Otherwise it
\* fails with OutOfBoundsError and returns no array.  With several integers
\* it succeeds if and only if each of them is in bounds.
C2_IntegerBounds ==
  (pc = "prim_slice_ret" /\ \A k \in 1..Len(slices) : slices[k].kind = "int") =>
    LET in_bounds(k) ==
          LET n == self_.shape[slice_dims[k] + 1]
          IN 0 - n <= slices[k].value /\ slices[k].value <= n - 1
    IN /\ result.err = "" <=> \A k \in 1..Len(slices) : in_bounds(k)
       /\ result.err # "" => result = Raise("OutOfBoundsError")
       /\ (Len(slices) = 1 /\ in_bounds(1)) =>
            LET d == slice_dims[1]
                v == slices[1].value
                position == IF v < 0 THEN v + self_.shape[d + 1] ELSE v
                r == result.val[1]
            IN /\ r.shape = [self_.shape EXCEPT ![d + 1] = 1]
               /\ r.stride = self_.stride
               /\ r.storage = self_.storage
               /\ r.offset = self_.offset + position * self_.stride[d + 1]

\* a dimension of size n >= 1 indexed by -n, which succeeds
C2_Witness ==
  /\ pc = "prim_slice_ret"
  /\ Len(slices) = 1
  /\ slices[1].kind = "int"
  /\ self_.shape[slice_dims[1] + 1] = MaxDim
  /\ slices[1].value = 0 - MaxDim
  /\ result.err = ""

\* C7: prim_reorder fails with DanglingAxisError if some source axis absent
\* from order has a size other than 1; otherwise it returns a view over the
\* same Storage and storage offset whose k-th axis has the size and stride of
\* source axis order[k], or size 1 and stride 0 where order[k] is None.
C7_Reorder ==
  pc = "prim_reorder_ret" =>
    LET absent(i) == \A k \in 1..Len(permute) : permute[k] # Some(i)
        dangling == \E i \in 0..(ndim(self_) - 1) :
                      absent(i) /\ self_.shape[i + 1] # 1
    IN IF dangling
       THEN result = Raise("DanglingAxisError")
       ELSE /\ result.err = ""
            /\ LET r == result.val[1]
               IN /\ r.storage = self_.storage
                  /\ r.offset = self_.offset
                  /\ Len(r.shape) = Len(permute)
                  /\ Len(r.stride) = Len(permute)
                  /\ \A k \in 1..Len(permute) :
                       IF permute[k] = None
                       THEN r.shape[k] = 1 /\ r.stride[k] = 0
                       ELSE /\ r.shape[k] = self_.shape[permute[k][1] + 1]
                            /\ r.stride[k] = self_.stride[permute[k][1] + 1]

\* shape (2,1,5,3) reordered by [0, 3, 2, None]: shape (2,3,5,1)
C7_Witness ==
  /\ pc = "prim_reorder_ret"
  /\ self_.shape = <<2, 1, 5, 3>>
  /\ permute = <<Some(0), Some(3), Some(2), None>>
  /\ result.err = ""
  /\ result.val[1].shape = <<2, 3, 5, 1>>

(* what the claims speak of, said without the code's plans *)

\* the raw index after the normalizer's padding, as the claims describe it:
\* to_pad full slices in place of the first Ellipsis, or at the end
Padded(idxs, rank, specified) ==
  LET pad == [k \in 1..(rank - specified) |-> empty_slice]
      at == {k \in 1..Len(idxs) : idxs[k].kind = "ellipsis"}
  IN IF at = {} THEN idxs \o pad
     ELSE LET e == CHOOSE k \in at : \A j \in at : k <= j
          IN SubSeq(idxs, 1, e - 1) \o pad \o SubSeq(idxs, e + 1, Len(idxs))

\* the positions 0..n-1 that a slice with a positive step selects
Selected(s, n) ==
  LET norm(v) == IF v < 0 THEN v + n ELSE v
      lo == IF s.start = None THEN 0 ELSE Max(norm(s.start[1]), 0)
      hi == IF s.stop = None THEN n ELSE norm(s.stop[1])
      step == IF s.step = None THEN 1 ELSE s.step[1]
  IN {i \in 0..(n - 1) : i >= lo /\ i < hi /\ (i - lo) % step = 0}

IntegerInBounds(v, n) == 0 - n <= v /\ v <= n - 1

\* the basic-indexing shape: one axis per slice, none per integer
RECURSIVE BasicShape(_, _)
BasicShape(shape, idxs) ==
  IF idxs = <<>> THEN <<>>
  ELSE (IF Head(idxs).kind = "slice"
        THEN <<Cardinality(Selected(Head(idxs), Head(shape)))>>
        ELSE <<>>) \o BasicShape(Tail(shape), Tail(idxs))

OnlyBasic(idxs) == \A k \in 1..Len(idxs) : idxs[k].kind \in {"slice", "int"}

\* C1: an index expression of Integer and Slice slots only, the integers in
\* bounds and at most rank(source) slots, resolves to an array that shares the
\* source's Storage, with no Gather executed, and whose shape is the
\* basic-indexing shape: one axis per Slice slot (the padded full slices
\* included) of the size that slice selects, and no axis for an Integer slot.
C1_BasicIndexing ==
  (/\ pc = "done"
   /\ OnlyBasic(index_)
   /\ Len(index_) <= ndim(self_)
   /\ \A k \in 1..Len(index_) :
        index_[k].kind = "int" => IntegerInBounds(index_[k].value, self_.shape[k]))
    => /\ result.err = ""
       /\ result.val[1].storage = self_.storage
       /\ \A k \in 1..Len(trace) : trace[k] # "prim_gather"
       /\ result.val[1].shape =
            BasicShape(self_.shape, Padded(index_, ndim(self_), Len(index_)))

\* shape (2,3,4) indexed by [1:, :, -1]: shape (1,3)
C1_Witness ==
  /\ pc = "done"
  /\ self_.shape = <<2, 3, 4>>
  /\ index_ = <<Slice(Some(1), None, None), empty_slice, Integer(-1)>>
  /\ result.err = ""
  /\ result.val[1].shape = <<1, 3>>
  /\ result.val[1].storage = self_.storage

\* C5: the array Resolve returns is never the object it was given; when no
\* primitive executed, it is a distinct alias with the shape, stride, offset
\* and Storage of the source.
C5_NeverIdentical ==
  (pc = "done" /\ result.err = "") =>
    /\ result.val[1].id # self_.id
    /\ trace = <<>> =>
         /\ result.val[1].shape = self_.shape
         /\ result.val[1].stride = self_.stride
         /\ result.val[1].offset = self_.offset
         /\ result.val[1].storage = self_.storage

\* a full slice on each of three dimensions: no primitive executes
C5_Witness ==
  /\ pc = "done"
  /\ index_ = <<empty_slice, empty_slice, empty_slice>>
  /\ ndim(self_) = 3
  /\ trace = <<>>
  /\ result.err = ""
  /\ result.val[1].id # self_.id

\* the specified-dimension count of a raw slot, as the claim gives it
SpecifiedCount(idx) ==
  IF idx.kind \in {"none", "ellipsis", "bool"} THEN 0
  ELSE IF idx.kind = "tensor" /\ idx.dtype \in {"bool", "uint8"}
       THEN Len(idx.arr.shape)
       ELSE 1

RECURSIVE TotalSpecified(_)
TotalSpecified(idxs) ==
  IF idxs = <<>> THEN 0
  ELSE SpecifiedCount(Head(idxs)) + TotalSpecified(Tail(idxs))

\* C6: Resolve fails with RankError if and only if the total
\* specified-dimension count exceeds rank(source); otherwise exactly
\* to_pad = rank(source) - total full slices replace the first Ellipsis, or
\* are appended when there is none, and the normalized slots consume every
\* source dimension exactly once.
C6_RankAndPadding ==
  LET total == TotalSpecified(index_)
      wrapped == [k \in 1..Len(index_) |-> wrap_sequences(index_[k])]
  IN /\ (pc # "start" /\ total > ndim(self_)) => result = Raise("RankError")
     /\ result.err = "RankError" => total > ndim(self_)
     /\ pc = "masks" =>
          /\ index = Padded(wrapped, ndim(self_), total)
          /\ TotalSpecified(index) = ndim(self_)

\* an Ellipsis between two slots, replaced by two full slices
C6_Witness ==
  /\ pc = "masks"
  /\ Len(index_) = 3
  /\ index_[2] = Ellipsis
  /\ index_[1] = NewAxis
  /\ ndim(self_) = 3
  /\ index = <<NewAxis, empty_slice, empty_slice, index_[3]>>

HasScalarMask(idxs) ==
  \E k \in 1..Len(idxs) :
    \/ idxs[k].kind = "bool"
    \/ idxs[k].kind = "tensor" /\ idxs[k].dtype \in {"bool", "uint8"}
         /\ Len(idxs[k].arr.shape) = 0

\* the primitives after the corrective reorder, in the order they ran
AfterCorrective ==
  IF trace # <<>> /\ trace[1] = "prim_reorder" /\ HasScalarMask(index_)
  THEN Tail(trace) ELSE trace

IsPrefixOf(t, full) == Len(t) <= Len(full) /\ t = SubSeq(full, 1, Len(t))

\* C8: the primitives applied to the source-derived array run in the order
\* Slice, Gather, Reorder, each at most once and only when its plan requires
\* it; a corrective Reorder of the source precedes them only when the index
\* expression holds a scalar boolean mask, so that without a scalar mask no
\* Reorder runs before Slice or Gather.
C8_PrimitiveOrder ==
  LET required ==
        (IF slice_dims # <<>> THEN <<"prim_slice">> ELSE <<>>)
          \o (IF gather_dims # <<>> THEN <<"prim_gather">> ELSE <<>>)
          \o (IF pc \in {"return", "done"} /\ Len(trace) > 0
                   /\ trace[Len(trace)] = "prim_reorder"
              THEN <<"prim_reorder">> ELSE <<>>)
  IN /\ (pc \in {"plan", "slice"} /\ ~HasScalarMask(index_)) => trace = <<>>
     /\ pc \in {"slice", "gather", "reorder", "return", "done"} =>
          IsPrefixOf(AfterCorrective, required)

\* C9: with a non-empty GatherPlan, NewAxis slots or not, resolution
\* completes with an array once Gather has run: every None of PermutePlan is
\* kept as a new-axis marker and the final Reorder yields a size-1 axis at
\* each of them.
C9_GatherWithNewAxis ==
  (/\ pc = "done"
   /\ \E k \in 1..Len(trace) : trace[k] = "prim_gather")
    => /\ result.err = ""
       /\ ndim(result.val[1]) = Len(permute)
       /\ \A k \in 1..Len(permute) :
            permute[k] = None => result.val[1].shape[k] = 1

\* the normalized index of an expression that passed the normalizer
Normalized ==
  Padded([k \in 1..Len(index_) |-> wrap_sequences(index_[k])],
         ndim(self_), TotalSpecified(index_))

Advanced(idxs) == {k \in 1..Len(idxs) : idxs[k].kind = "tensor"}

\* two advanced slots of idxs with a slot of one of the kinds between them
Separated(idxs, kinds) ==
  \E a \in Advanced(idxs) : \E b \in Advanced(idxs) :
    \E m \in (a + 1)..(b - 1) : idxs[m].kind \in kinds

FirstAdvanced(idxs) ==
  CHOOSE k \in Advanced(idxs) : \A j \in Advanced(idxs) : k <= j

\* the broadcast shape of the advanced slots
BroadcastOf(idxs) ==
  broadcast_tensors(
    [k \in 1..Cardinality(Advanced(idxs)) |->
       SelectSeq(idxs, LAMBDA x : x.kind = "tensor")[k].arr.shape])

\* the output shape with S spliced in: at the front, or where the first
\* advanced slot stands among the axes of the Slice slots
SplicedShape(shape, idxs, S, front) ==
  LET f == FirstAdvanced(idxs)
  IN IF front
     THEN S \o BasicShape(shape, idxs)
     ELSE BasicShape(SubSeq(shape, 1, f - 1), SubSeq(idxs, 1, f - 1))
            \o S
            \o BasicShape(SubSeq(shape, f, Len(shape)), SubSeq(idxs, f, Len(idxs)))

\* an expression of Slice, Integer and IntIndex slots, at least one of them
\* advanced, that Resolve answered with an array
AdvancedResolved ==
  /\ pc = "done"
  /\ result.err = ""
  /\ \A k \in 1..Len(index_) :
       \/ index_[k].kind \in {"slice", "int"}
       \/ index_[k].kind = "tensor" /\ index_[k].dtype = "long"
  /\ Advanced(index_) # {}

\* C3 as claimed: two advanced slots separated by a Slice or an Integer put
\* the broadcast axes at the front of the output; adjacent advanced slots
\* splice them at the output position of the first advanced slot.
C3_Original ==
  AdvancedResolved =>
    LET front == Separated(Normalized, {"slice", "int"})
    IN /\ front => gather_insert_point = Some(0)
       /\ result.val[1].shape =
            SplicedShape(self_.shape, Normalized, BroadcastOf(Normalized).val[1],
                         front)

\* C3 as amended: only a Slice between two advanced slots puts the
\* broadcast axes at the front (insertion point 0), followed by the axes of
\* the Slice slots in source order; advanced slots that are adjacent, or have
\* only Integer slots between them, splice the broadcast shape at the output
\* position of the first advanced slot.
C3_InsertionPoint ==
  AdvancedResolved =>
    LET front == Separated(Normalized, {"slice"})
        f == FirstAdvanced(Normalized)
        before == Cardinality({k \in 1..(f - 1) : Normalized[k].kind = "slice"})
    IN /\ gather_insert_point = Some(IF front THEN 0 ELSE before)
       /\ result.val[1].shape =
            SplicedShape(self_.shape, Normalized, BroadcastOf(Normalized).val[1],
                         front)

\* tensor, slice, tensor after a leading slice: the broadcast shape (3,2)
\* moves to the front of the output
C3_Witness ==
  /\ pc = "done"
  /\ self_.shape = <<2, 3, 4, 5>>
  /\ index_ = <<empty_slice, Long(<<3, 1>>), empty_slice, Long(<<2>>)>>
  /\ gather_insert_point = Some(0)
  /\ result.err = ""
  /\ result.val[1].shape = <<3, 2, 2, 4>>

\* the slots of the expanded index that came from a scalar mask, and those
\* that consume a dimension of the source
FromScalar(k) == index[k].kind = "tensor" /\ index[k].origin = "scalar"
Consuming(k) == index[k].kind # "none" /\ ~FromScalar(k)

\* C10: after plan building, the offset given to the coordinate array of
\* each scalar mask is the position at which the corrective reorder inserted
\* that mask's size-1 axis, every other slot but a NewAxis is given the
\* position of the source dimension it consumes in the corrected array, and
\* offset ends at the rank of the corrected array, rank(source) plus the
\* number of scalar masks.
C10_ScalarMaskOffsets ==
  pc = "slice" =>
    LET scalars == Cardinality({k \in 1..Len(index) : FromScalar(k)})
    IN /\ Len(offsets) = Len(index)
       /\ \A k \in 1..Len(index) :
            IF index[k].kind = "none" THEN offsets[k] = None
            ELSE /\ offsets[k] # None
                 /\ offsets[k][1] < Len(initial_reorder)
                 /\ initial_reorder[offsets[k][1] + 1] =
                      (IF FromScalar(k) THEN None
                       ELSE Some(Cardinality({j \in 1..(k - 1) : Consuming(j)})))
                 /\ self.shape[offsets[k][1] + 1] =
                      (IF FromScalar(k) THEN 1
                       ELSE self_.shape[Cardinality({j \in 1..k : Consuming(j)})])
       /\ offset = ndim(self)
       /\ ndim(self) = ndim(self_) + scalars
       /\ scalars = Cardinality({k \in 1..Len(index_) : index_[k].kind = "bool"})

\* two scalar masks around a NewAxis and an Integer
C10_Witness ==
  /\ pc = "slice"
  /\ index_ = <<Bool(TRUE), NewAxis, Integer(0), Bool(FALSE)>>
  /\ self_.shape = <<2, 3, 4>>
  /\ initial_reorder = <<None, Some(0), None, Some(1), Some(2)>>
  /\ offsets = <<Some(0), None, Some(1), Some(2), Some(3), Some(4)>>

IsMaskSlot(idx) == idx.kind = "tensor" /\ idx.dtype \in {"bool", "uint8"}
MaskRank(idx) == Len(idx.arr.shape)

\* the masks of rank 1 and more among idxs
ArrayMasks(idxs) == {k \in 1..Len(idxs) : IsMaskSlot(idxs[k]) /\ MaskRank(idxs[k]) >= 1}

\* the dimension cursor at slot k: the source dimensions the slots before it
\* consume
RECURSIVE Cursor(_, _)
Cursor(idxs, k) ==
  IF k <= 1 THEN 0 ELSE Cursor(idxs, k - 1) + SpecifiedCount(idxs[k - 1])

\* the mask at slot k has the source's shape over the dimensions it covers
Matches(shape, idxs, k) ==
  LET i == Cursor(idxs, k)
  IN /\ i + MaskRank(idxs[k]) <= Len(shape)
     /\ idxs[k].arr.shape = SubSeq(shape, i + 1, i + MaskRank(idxs[k]))

\* the index with every mask replaced by its coordinate arrays
RECURSIVE Coordinates(_)
Coordinates(idxs) ==
  IF idxs = <<>> THEN <<>>
  ELSE LET h == Head(idxs)
       IN (IF IsMaskSlot(h)
           THEN [d \in 1..Max(MaskRank(h), 1) |->
                   Tensor("long", NewTensor(<<h.count>>), 0,
                          IF MaskRank(h) = 0 THEN "scalar" ELSE "mask")]
           ELSE <<h>>) \o Coordinates(Tail(idxs))

\* the shape with each Slice slot an axis, each Integer slot none and each
\* mask one axis as long as the mask has true entries
RECURSIVE CollapsedShape(_, _)
CollapsedShape(shape, idxs) ==
  IF idxs = <<>> THEN <<>>
  ELSE LET h == Head(idxs)
       IN IF IsMaskSlot(h)
          THEN <<h.count>> \o
                 CollapsedShape(SubSeq(shape, MaskRank(h) + 1, Len(shape)), Tail(idxs))
          ELSE (IF h.kind = "slice"
                THEN <<Cardinality(Selected(h, Head(shape)))>> ELSE <<>>)
                 \o CollapsedShape(Tail(shape), Tail(idxs))

\* an expression of Slice slots, in-bounds Integer slots and masks of rank 1
\* and more that match the source, at least one of them a mask
MasksAmongBasic ==
  /\ TotalSpecified(index_) <= ndim(self_)
  /\ ArrayMasks(index_) # {}
  /\ \A k \in 1..Len(index_) :
       \/ index_[k].kind = "slice"
       \/ /\ index_[k].kind = "int"
          /\ IntegerInBounds(index_[k].value, self_.shape[Cursor(index_, k) + 1])
       \/ k \in ArrayMasks(index_) /\ Matches(self_.shape, index_, k)

\* C4 as claimed: every mask of rank k >= 1 that matches the source over the
\* k dimensions at its cursor leaves the result with those dimensions
\* collapsed into one axis as long as the mask has true entries.
C4_Original ==
  (pc = "done" /\ MasksAmongBasic) =>
    /\ result.err = ""
    /\ result.val[1].shape = CollapsedShape(self_.shape, Normalized)

AtMostOneEllipsis ==
  Cardinality({k \in 1..Len(index_) : index_[k].kind = "ellipsis"}) <= 1

\* C4 as amended: a mask of rank k >= 1 whose shape is the source's over the
\* k dimensions at its cursor is replaced by k coordinate arrays, each as
\* long as the mask has true entries; if a mask's shape differs, Resolve
\* fails with ShapeMismatchError and returns no array; and when the mask is
\* the only advanced slot, among Slice and in-bounds Integer slots, the
\* result has those k dimensions collapsed into a single axis of that length.
C4_MaskExpansion ==
  (TotalSpecified(index_) <= ndim(self_) /\ AtMostOneEllipsis) =>
    LET mismatch == \E k \in ArrayMasks(Normalized) :
                      ~Matches(self_.shape, Normalized, k)
    IN /\ pc = "initial_reorder" => ~mismatch /\ index = Coordinates(Normalized)
       /\ (pc \notin {"start", "masks"} /\ mismatch)
            => result = Raise("ShapeMismatchError")
       /\ result.err = "ShapeMismatchError" => mismatch
       /\ (pc = "done" /\ MasksAmongBasic /\ Cardinality(ArrayMasks(index_)) = 1)
            => /\ result.err = ""
               /\ result.val[1].shape = CollapsedShape(self_.shape, Normalized)
               /\ result.val[1].storage # self_.storage

\* a mask of shape (2,3) with two true entries after a full slice of a
\* source of shape (1,2,3): shape (1,2)
C4_Witness ==
  /\ pc = "done"
  /\ self_.shape = <<1, 2, 3>>
  /\ index_ = <<empty_slice, Mask("uint8", <<2, 3>>, 2)>>
  /\ result.err = ""
  /\ result.val[1].shape = <<1, 2>>

====
